---------------------------- MODULE Spec2Model ----------------------------
(***************************************************************************)
(* Cloudfloe backend (src/backend/main.py): the query execution gateway.   *)
(*                                                                         *)
(* The module models the process-wide DuckDBManager (its one `connection`  *)
(* attribute), the two POST handlers that drive it (/api/query and         *)
(* /api/connect/test) statement by statement, and the pure string          *)
(* functions of the manager.  Text is modelled as sequences of one-        *)
(* character strings so that substring tests, upper-casing, trimming and   *)
(* formatting are computed as the Python code computes them.               *)
(***************************************************************************)
EXTENDS Integers, Sequences, FiniteSets, TLC

VARIABLES
    connection,   \* db_manager.connection: the engine session the manager holds
    loop,         \* the request whose handler occupies the event loop (0: none)
    pending,      \* requests received and waiting for their handler to be entered
    open_sessions,\* engine sessions opened and not yet closed
    req,          \* per request slot: the handler's inputs, position and locals
    call          \* a direct call of one of the manager's pure string functions

vars == <<connection, loop, pending, open_sessions, req, call>>

None == "None"

(***************************************************************************)
(* Bounds of the model.                                                    *)
(***************************************************************************)
MaxFrags == 3      \* fragments concatenated into one SQL text (pure calls)

(***************************************************************************)
(* Python str primitives over sequences of characters.                     *)
(***************************************************************************)
Lowers == <<"a","b","c","d","e","f","g","h","i","j","k","l","m",
            "n","o","p","q","r","s","t","u","v","w","x","y","z">>

Uppers == <<"A","B","C","D","E","F","G","H","I","J","K","L","M",
            "N","O","P","Q","R","S","T","U","V","W","X","Y","Z">>

Digits == <<"0","1","2","3","4","5","6","7","8","9">>

Whitespace == {" ", "\n", "\t"}

\* str.upper() on one character
upperChar(c) ==
    IF \E i \in 1..Len(Lowers) : Lowers[i] = c
    THEN Uppers[CHOOSE i \in 1..Len(Lowers) : Lowers[i] = c]
    ELSE c

\* str.upper()
Upper(s) == [i \in 1..Len(s) |-> upperChar(s[i])]

\* `t in s` for strings
Contains(s, t) ==
    \E i \in 0..(Len(s) - Len(t)) : SubSeq(s, i + 1, i + Len(t)) = t

\* s.count(t) for a non-empty t without self-overlap
Count(s, t) ==
    Cardinality({i \in 0..(Len(s) - Len(t)) : SubSeq(s, i + 1, i + Len(t)) = t})

\* s.endswith(t)
endswith(s, t) ==
    Len(s) >= Len(t) /\ SubSeq(s, Len(s) - Len(t) + 1, Len(s)) = t

\* s.strip()
strip(s) ==
    LET keep == {i \in 1..Len(s) : s[i] \notin Whitespace}
    IN  IF keep = {} THEN <<>>
        ELSE SubSeq(s, CHOOSE i \in keep : \A j \in keep : i <= j,
                       CHOOSE i \in keep : \A j \in keep : i >= j)

RECURSIVE digits(_)
digits(n) ==
    IF n < 10 THEN <<Digits[n + 1]>>
    ELSE digits(n \div 10) \o <<Digits[(n % 10) + 1]>>

\* str(n) / f"{n}" for an int
str(n) == IF n < 0 THEN <<"-">> \o digits(-n) ELSE digits(n)

LIMIT == <<"L","I","M","I","T">>

(***************************************************************************)
(* DuckDBManager._limit_query                                              *)
(***************************************************************************)
\* the body with the LIMIT test made on the text as typed (no upper())
_limit_query_case_sensitive(sql, limit) ==
    LET s1 == strip(sql)
        s2 == IF endswith(s1, <<";">>) THEN SubSeq(s1, 1, Len(s1) - 1) ELSE s1
    IN  IF ~Contains(s2, LIMIT)
        THEN s2 \o <<" ">> \o LIMIT \o <<" ">> \o str(limit)
        ELSE s2

_limit_query(sql, limit) ==
    LET s1 == strip(sql)
        s2 == IF endswith(s1, <<";">>) THEN SubSeq(s1, 1, Len(s1) - 1) ELSE s1
    IN  IF ~Contains(Upper(s2), LIMIT)
        THEN s2 \o <<" ">> \o LIMIT \o <<" ">> \o str(limit)
        ELSE s2

\* s.replace(old, new): left to right, non-overlapping (old is non-empty)
RECURSIVE replace(_, _, _)
replace(s, old, new) ==
    IF Len(s) < Len(old) THEN s
    ELSE IF SubSeq(s, 1, Len(old)) = old
         THEN new \o replace(SubSeq(s, Len(old) + 1, Len(s)), old, new)
         ELSE <<s[1]>> \o replace(Tail(s), old, new)

\* s.rstrip(chars)
RECURSIVE rstrip(_, _)
rstrip(s, chars) ==
    IF s # <<>> /\ s[Len(s)] \in chars THEN rstrip(SubSeq(s, 1, Len(s) - 1), chars)
    ELSE s

\* an Optional[str] field holding None
Null == <<None>>

\* truth value of an Optional[str]: None and "" are false
Truthy(s) == s # Null /\ s # <<>>

(***************************************************************************)
(* Request inputs.  ConnectionConfig (main.py 24-36) with text fields as   *)
(* character sequences where the code inspects or edits them, and as       *)
(* opaque names where it only passes them on.                              *)
(***************************************************************************)
EpMinio == <<"h","t","t","p",":","/","/","l","o","c","a","l","h","o","s","t",":","9","0","0","0">>
EpR2    == <<"h","t","t","p","s",":","/","/","a","c","c","t",".","r","2",".","d","e","v">>
EpS3    == <<"s","3",".","a","m","a","z","o","n","a","w","s",".","c","o","m">>

EndpointOf(storageType) ==
    CASE storageType = "minio" -> EpMinio
      [] storageType = "r2"    -> EpR2
      [] OTHER                 -> EpS3

CatalogUrl == <<"h","t","t","p",":","/","/","c","a","t">>

TablePaths ==
    { <<"s","3",":","/","/","b","/","t">>,
      <<"s","3",":","/","/","b","/","t","/">>,
      <<"s","3",":","/","/","b","/","t","/","m","e","t","a","d","a","t","a">> }

Config(storageType, key, token, region, catalogType, catalogEndpoint, tablePath) ==
    [ storageType     |-> storageType,
      endpoint        |-> EndpointOf(storageType),
      accessKey       |-> <<"AK", key>>,
      secretKey       |-> <<"SK", key>>,
      sessionToken    |-> token,
      region          |-> region,
      catalogType     |-> catalogType,
      catalogEndpoint |-> catalogEndpoint,
      namespace       |-> "default",
      tablePath       |-> tablePath ]

\* the configurations callers send: every storage kind with two key pairs,
\* with and without a session token; a REST catalog with and without its
\* endpoint; a direct table path in the shapes test_connection cleans up
StorageConfigs ==
    { Config(st, c[1], c[2], "eu-west-1", "none", Null, Null) :
        st \in {"s3", "minio", "r2"}, c \in {<<1, Null>>, <<2, <<"t","o","k">> >>} }

CatalogConfigs ==
    { Config("s3", 1, Null, "us-west-2", "rest", ce, Null) :
        ce \in {Null, <<>>, CatalogUrl} }

TableConfigs ==
    { Config("minio", 2, <<>>, "us-east-1", "none", Null, tp) :
        tp \in TablePaths \cup {<<>>} }

Configs == StorageConfigs \cup CatalogConfigs \cup TableConfigs

\* SQL texts sent to POST /api/query: reads, with and without a limit clause
ReadSql ==
    { <<"s","e","l","e","c","t"," ","1">>,
      <<"s","e","l","e","c","t"," ","a"," ","l","i","m","i","t"," ","9",";">> }

\* empty texts, and texts with a deny-listed keyword in either letter case
\* or inside an identifier
OtherSql ==
    { <<>>,
      <<" ","\n">>,
      <<"D","E","L","E","T","E"," ","F","R","O","M"," ","t">>,
      <<"d","r","o","p"," ","t","a","b","l","e"," ","t">>,
      <<"s","e","l","e","c","t"," ","u","p","d","a","t","e","d">> }

\* QueryRequest.rowLimit: Field(default=1000, le=10000)
MaxRowLimit == 10000

\* rowLimit values sent to POST /api/query
RowLimitInputs == {0, 1, 2}

\* request-body validation of a QueryRequest: rowLimit has an upper bound
\* (le) and no lower one
Accepts(request) == request.rowLimit <= MaxRowLimit

\* the QueryRequest bodies sent
QueryInputs ==
    [sql : ReadSql, connection : Configs, rowLimit : RowLimitInputs]
    \cup
    [sql : OtherSql,
     connection : { Config("r2", 1, Null, "eu-west-1", "none", Null, Null),
                    Config("s3", 1, Null, "us-west-2", "rest", CatalogUrl, Null) },
     rowLimit : {1}]
    \cup
    [sql : {<<"s","e","l","e","c","t"," ","1">>},
     connection : {Config("s3", 1, Null, "eu-west-1", "none", Null, Null)},
     rowLimit : {MaxRowLimit, MaxRowLimit + 1}]

(***************************************************************************)
(* The engine session (a DuckDB in-memory connection): whether it is open, *)
(* the call that created it, and the session state the gateway sets.       *)
(***************************************************************************)
\* duckdb.connect(":memory:"): a new database with the engine's defaults
FreshConnection(owner) ==
    [ open                 |-> TRUE,
      owner                |-> owner,
      setup                |-> 0,
      s3_endpoint          |-> Null,
      s3_url_style         |-> "default",
      s3_use_ssl           |-> "default",
      s3_region            |-> "default",
      s3_access_key_id     |-> <<"default">>,
      s3_secret_access_key |-> <<"default">>,
      s3_session_token     |-> Null,
      secret               |-> <<>>,
      catalog              |-> <<>>,
      profiling            |-> FALSE ]

NoCall == [fn |-> None]

(***************************************************************************)
(* DuckDBManager._convert_to_iceberg_query: re.sub with the pattern        *)
(*   read_parquet\(['"]s3://([^/]+)/([^'"]+?)/?\*?\*?/?\*?\.parquet['"]\)  *)
(* under re.IGNORECASE, matched as the backtracking engine matches it.     *)
(***************************************************************************)
Quotes == {"'", "\""}

\* the literal `lit` (given in upper case) stands at position i of s, in any case
LiteralAt(s, i, lit) ==
    /\ i + Len(lit) - 1 <= Len(s)
    /\ Upper(SubSeq(s, i, i + Len(lit) - 1)) = lit

RECURSIVE Concat(_)
Concat(ss) == IF ss = <<>> THEN <<>> ELSE Head(ss) \o Concat(Tail(ss))

\* the texts /?\*?\*?/?\*? can consume
OptionalRuns ==
    { Concat([i \in 1..5 |-> IF i \in chosen THEN <<(<<"/","*","*","/","*">>)[i]>> ELSE <<>>]) :
        chosen \in SUBSET (1..5) }

\* the position of the closing ')' when /?\*?\*?/?\*?\.parquet['"]\) matches
\* from position j of s, else 0
TailEnd(s, j) ==
    LET fits(o) ==
            LET d == j + Len(o)
            IN  /\ d + 9 <= Len(s)
                /\ SubSeq(s, j, d - 1) = o
                /\ LiteralAt(s, d, <<".","P","A","R","Q","U","E","T">>)
                /\ s[d + 8] \in Quotes
                /\ s[d + 9] = ")"
        ends == {j + Len(o) + 9 : o \in {o \in OptionalRuns : fits(o)}}
    IN  IF ends = {} THEN 0 ELSE CHOOSE e \in ends : TRUE

NoMatch == [end |-> 0, bucket |-> <<>>, path |-> <<>>]

\* the match of the pattern that starts at position i of s, if there is one
MatchAt(s, i) ==
    LET q  == i + 13                      \* the opening quote
        b0 == q + 6                       \* first character of the bucket
        slashes == {k \in b0..Len(s) : s[k] = "/"}
    IN  IF /\ LiteralAt(s, i, <<"R","E","A","D","_","P","A","R","Q","U","E","T","(">>)
           /\ q <= Len(s) /\ s[q] \in Quotes
           /\ LiteralAt(s, q + 1, <<"S","3",":","/","/">>)
           /\ slashes # {}
        THEN LET sl == CHOOSE k \in slashes : \A m \in slashes : k <= m
                 g0 == sl + 1
                 lens == {n \in 1..(Len(s) - sl) :
                            /\ \A k \in g0..(g0 + n - 1) : s[k] \notin Quotes
                            /\ TailEnd(s, g0 + n) # 0}
             IN  IF sl > b0 /\ lens # {}
                 THEN LET n == CHOOSE n \in lens : \A m \in lens : n <= m
                      IN  [end    |-> TailEnd(s, g0 + n),
                           bucket |-> SubSeq(s, b0, sl - 1),
                           path   |-> SubSeq(s, g0, g0 + n - 1)]
                 ELSE NoMatch
        ELSE NoMatch

\* s.split('/')[-1]
LastSegment(s) ==
    LET slashes == {k \in 1..Len(s) : s[k] = "/"}
    IN  IF slashes = {} THEN s
        ELSE SubSeq(s, (CHOOSE k \in slashes : \A m \in slashes : k >= m) + 1, Len(s))

\* a namespace as text
NamespaceText(namespace) ==
    IF namespace = "default" THEN <<"d","e","f","a","u","l","t">> ELSE <<"n","s">>

\* replace_with_iceberg(match)
replace_with_iceberg(m, config) ==
    LET path == rstrip(m.path, {"/", "*"})
    IN  IF config.catalogType = "rest"
        THEN <<"i","c","e","b","e","r","g","_","c","a","t","a","l","o","g",".">>
             \o NamespaceText(config.namespace) \o <<".">> \o LastSegment(path)
        ELSE <<"i","c","e","b","e","r","g","_","s","c","a","n","(","'","s","3",":","/","/">>
             \o m.bucket \o <<"/">> \o path \o <<"'",")">>

\* re.sub from position i on: leftmost matches, left to right, non-overlapping
RECURSIVE SubFrom(_, _, _)
SubFrom(s, i, config) ==
    IF i > Len(s) THEN <<>>
    ELSE LET m == MatchAt(s, i)
         IN  IF m.end # 0
             THEN replace_with_iceberg(m, config) \o SubFrom(s, m.end + 1, config)
             ELSE <<s[i]>> \o SubFrom(s, i + 1, config)

_convert_to_iceberg_query(sql, config) == SubFrom(sql, 1, config)

(***************************************************************************)
(* Statements sent to the engine.  A statement has a name, the request     *)
(* values interpolated into its text (f-string), the values bound as       *)
(* parameters, and the session field it sets when it succeeds.             *)
(***************************************************************************)
Op(name, interp, bound, field, val) ==
    [name |-> name, interp |-> interp, bound |-> bound, field |-> field, val |-> val]

\* the log entry of a statement: what reached the engine
Sent(op) == [name |-> op.name, interp |-> op.interp, bound |-> op.bound]

\* a lifecycle call on the connection object (close, connect)
Event(name) == [name |-> name, interp |-> <<>>, bound |-> <<>>]

RECURSIVE ApplyOps(_, _)
ApplyOps(c, ops) ==
    IF ops = <<>> THEN c
    ELSE ApplyOps(IF Head(ops).field = "none" THEN c
                  ELSE [c EXCEPT ![Head(ops).field] = Head(ops).val],
                  Tail(ops))

\* the statements of `ops` that reach the engine when the first k succeed:
\* those k and the one that raises
SentOps(ops, k) ==
    [i \in 1..(IF k < Len(ops) THEN k + 1 ELSE k) |-> Sent(ops[i])]

\* how many statements of `ops` can succeed on connection c: any prefix on
\* an open connection (each execute may raise), none on a closed one
Outcomes(c, ops) == IF c.open THEN 0..Len(ops) ELSE {0}

(***************************************************************************)
(* Request slots.                                                          *)
(***************************************************************************)
NumSlots == 2      \* handler activations that can exist at once
MaxPending == 1    \* requests that can wait for the event loop
MaxManifests == 2  \* entries in a table's manifest list
MaxRows == 3       \* rows a table scan can produce

Slots == 1..NumSlots

NoConfig == Config("none", 0, Null, "", "none", Null, Null)

NoResponse ==
    [status |-> 0, detail |-> "", tableInfo |-> Null,
     rows |-> <<>>, rowsReturned |-> 0, truncated |-> FALSE]

NoValidation == [valid |-> FALSE, warnings |-> <<>>]

NoMetadata == [readable |-> FALSE, manifest_content |-> <<>>]

IdleReq ==
    [ pc          |-> "idle",
      kind        |-> "none",
      sql         |-> <<>>,
      cfg         |-> NoConfig,
      rowLimit    |-> 0,
      leftover    |-> FALSE,        \* the session found at entry held another call's setting
      metadata    |-> NoMetadata,   \* what iceberg_metadata answered
      validation  |-> NoValidation, \* what _validate_iceberg_table returned
      limited_sql |-> <<>>,
      hint        |-> "",           \* how the read of version-hint.text went
      success     |-> FALSE,        \* what DuckDBManager.test_connection returned
      cause       |-> "",           \* the exception the manager logged
      response    |-> NoResponse,
      log         |-> <<>> ]        \* what this call did to the engine, in order

\* DuckDBManager.__init__ / _setup_duckdb at startup (lifespan)
StartupConnection == [FreshConnection(0) EXCEPT !.setup = 7]

Init ==
    /\ connection = StartupConnection
    /\ loop = 0
    /\ pending = 0
    /\ open_sessions = 1
    /\ req = [r \in Slots |-> IdleReq]
    /\ call = NoCall

\* The handlers are `async def` and never await: once entered, a handler
\* keeps the event loop until it returns, so another handler is entered
\* only when the loop is free.
CanEnterThreaded(r) == loop >= 0

CanEnter(r) == loop = 0

\* a request reaches the server and waits for the event loop to enter its handler
Arrive ==
    /\ loop >= 0
    /\ pending < MaxPending
    /\ pending' = pending + 1
    /\ UNCHANGED <<connection, loop, open_sessions, req, call>>

\* the slot the next handler activation takes: the first free one
FreeSlot(r) == req[r].pc = "idle" /\ \A o \in 1..(r - 1) : req[o].pc # "idle"

\* POST /api/query: the body is validated as a QueryRequest; the handler is
\* entered with the parsed request, and a body that fails validation is
\* answered 422 without the handler being called
StartQuery(r) ==
    /\ pending > 0
    /\ FreeSlot(r)
    /\ CanEnter(r)
    /\ pending' = pending - 1
    /\ \E request \in QueryInputs :
         req' = [req EXCEPT ![r] =
                    IF Accepts(request)
                    THEN [IdleReq EXCEPT !.pc = "q_validate", !.kind = "query",
                                         !.sql = request.sql, !.cfg = request.connection,
                                         !.rowLimit = request.rowLimit]
                    ELSE [IdleReq EXCEPT !.pc = "respond", !.kind = "query",
                                         !.sql = request.sql, !.cfg = request.connection,
                                         !.rowLimit = request.rowLimit,
                                         !.response = [NoResponse EXCEPT
                                                          !.status = 422,
                                                          !.detail = "rowLimit"]]]
    /\ loop' = r
    /\ UNCHANGED <<connection, open_sessions, call>>

\* POST /api/connect/test: the handler is entered with the parsed request
StartTest(r) ==
    /\ pending > 0
    /\ FreeSlot(r)
    /\ CanEnter(r)
    /\ pending' = pending - 1
    /\ \E cfg \in Configs :
         req' = [req EXCEPT ![r] = [IdleReq EXCEPT !.pc = "t_clean", !.kind = "test",
                                       !.cfg = cfg]]
    /\ loop' = r
    /\ UNCHANGED <<connection, open_sessions, call>>

\* the handler raises HTTPException(status, detail)
Raise(q, status, detail) ==
    [q EXCEPT !.pc = "respond",
              !.response = [NoResponse EXCEPT !.status = status, !.detail = detail]]

\* a test_connection without its try/except: the exception reaches the
\* endpoint's `except Exception`
FailedUncaught(q, cause) ==
    IF q.kind = "query"
    THEN Raise([q EXCEPT !.cause = cause], 400, "Query execution failed")
    ELSE Raise([q EXCEPT !.cause = cause], 500, "Internal server error")

\* an exception inside the manager: execute_query wraps it into a 400,
\* test_connection swallows it and returns False
Failed(q, cause) ==
    IF q.kind = "query"
    THEN Raise([q EXCEPT !.cause = cause], 400, "Query execution failed")
    ELSE [q EXCEPT !.pc = "t_endpoint", !.success = FALSE, !.cause = cause]

dangerous_keywords ==
    << <<"D","E","L","E","T","E">>, <<"D","R","O","P">>, <<"I","N","S","E","R","T">>,
       <<"U","P","D","A","T","E">>, <<"C","R","E","A","T","E">>, <<"A","L","T","E","R">> >>

\* the deny-list scan made on the text as typed (no upper())
Rejection_case_sensitive(sql) ==
    IF strip(sql) = <<>> THEN "Empty query"
    ELSE IF \E i \in 1..Len(dangerous_keywords) : Contains(sql, dangerous_keywords[i])
         THEN "Destructive operation not allowed"
         ELSE ""

\* the detail of the HTTPException the endpoint raises for a SQL text before
\* it calls db_manager.execute_query, "" when it raises none
Rejection(sql) ==
    IF strip(sql) = <<>> THEN "Empty query"
    ELSE IF \E i \in 1..Len(dangerous_keywords) :
                Contains(Upper(sql), dangerous_keywords[i])
         THEN "Destructive operation not allowed"
         ELSE ""

\* the endpoint's checks before db_manager.execute_query is called
QValidate(r) ==
    /\ req[r].pc = "q_validate"
    /\ LET q == req[r]
       IN  req' = [req EXCEPT ![r] =
                IF Rejection(q.sql) # ""
                THEN Raise(q, 400, Rejection(q.sql))
                ELSE [q EXCEPT !.pc = "apply_connect"]]
    /\ UNCHANGED <<connection, loop, pending, open_sessions, call>>

(***************************************************************************)
(* DuckDBManager._apply_s3_config, statement by statement.                 *)
(***************************************************************************)
SetupStatements ==
    << Op("INSTALL httpfs", <<>>, <<>>, "setup", 1),
       Op("LOAD httpfs", <<>>, <<>>, "setup", 2),
       Op("INSTALL iceberg", <<>>, <<>>, "setup", 3),
       Op("LOAD iceberg", <<>>, <<>>, "setup", 4),
       Op("SET unsafe_enable_version_guessing", <<>>, <<>>, "setup", 5),
       Op("SET memory_limit", <<>>, <<>>, "setup", 6),
       Op("SET threads", <<>>, <<>>, "setup", 7) >>

\* the endpoint text the minio branch sets
MinioEndpoint(endpoint) ==
    LET e1 == IF Contains(endpoint, <<"l","o","c","a","l","h","o","s","t">>)
              THEN replace(endpoint, <<"l","o","c","a","l","h","o","s","t">>,
                           <<"m","i","n","i","o">>)
              ELSE endpoint
    IN  replace(replace(e1, <<"h","t","t","p",":","/","/">>, <<>>),
                <<"h","t","t","p","s",":","/","/">>, <<>>)

\* the endpoint text the r2 branch sets
R2Endpoint(endpoint) == replace(endpoint, <<"h","t","t","p","s",":","/","/">>, <<>>)

\* the branch on config.storageType
StorageStatements(config) ==
    IF config.storageType = "minio"
    THEN << Op("SET s3_endpoint", <<"endpoint">>, <<>>, "s3_endpoint",
               MinioEndpoint(config.endpoint)),
            Op("SET s3_url_style", <<>>, <<>>, "s3_url_style", "path"),
            Op("SET s3_use_ssl", <<>>, <<>>, "s3_use_ssl", "false"),
            Op("SET s3_region", <<>>, <<>>, "s3_region", "us-east-1") >>
    ELSE IF config.storageType = "r2"
    THEN << Op("SET s3_endpoint", <<"endpoint">>, <<>>, "s3_endpoint",
               R2Endpoint(config.endpoint)),
            Op("SET s3_url_style", <<>>, <<>>, "s3_url_style", "path"),
            Op("SET s3_use_ssl", <<>>, <<>>, "s3_use_ssl", "true") >>
    ELSE << Op("SET s3_region", <<"region">>, <<>>, "s3_region", config.region),
            Op("SET s3_use_ssl", <<>>, <<>>, "s3_use_ssl", "true") >>

CredentialStatements(config) ==
    << Op("SET s3_access_key_id=?", <<>>, <<"accessKey">>,
          "s3_access_key_id", config.accessKey),
       Op("SET s3_secret_access_key=?", <<>>, <<"secretKey">>,
          "s3_secret_access_key", config.secretKey) >>
    \o (IF Truthy(config.sessionToken)
        THEN << Op("SET s3_session_token", <<"sessionToken">>, <<>>,
                   "s3_session_token", config.sessionToken) >>
        ELSE <<>>)

CatalogStatements(config) ==
    << Op("CREATE SECRET iceberg_catalog_secret", <<"accessKey", "secretKey">>, <<>>,
          "secret", <<config.accessKey, config.secretKey>>),
       Op("ATTACH iceberg_catalog", <<"namespace", "catalogEndpoint">>, <<>>,
          "catalog", <<config.namespace, config.catalogEndpoint>>) >>

\* the session fields _apply_s3_config writes
SettingFields ==
    { "s3_endpoint", "s3_url_style", "s3_use_ssl", "s3_region", "s3_access_key_id",
      "s3_secret_access_key", "s3_session_token", "secret", "catalog" }

\* the session a call needs, read off its config alone: the endpoint host,
\* addressing style, TLS and region of its storage kind, its keys, its
\* token when it has one, its catalog when it names one; engine defaults
\* for the rest
SessionFor(config) ==
    [ s3_endpoint |->
          CASE config.storageType = "minio" -> <<"m","i","n","i","o",":","9","0","0","0">>
            [] config.storageType = "r2"    -> <<"a","c","c","t",".","r","2",".","d","e","v">>
            [] OTHER                        -> Null,
      s3_url_style |-> IF config.storageType \in {"minio", "r2"} THEN "path" ELSE "default",
      s3_use_ssl   |-> IF config.storageType = "minio" THEN "false" ELSE "true",
      s3_region    |->
          CASE config.storageType = "minio" -> "us-east-1"
            [] config.storageType = "r2"    -> "default"
            [] OTHER                        -> config.region,
      s3_access_key_id     |-> config.accessKey,
      s3_secret_access_key |-> config.secretKey,
      s3_session_token     |-> IF config.sessionToken \in {Null, <<>>} THEN Null
                               ELSE config.sessionToken,
      secret  |-> IF config.catalogType = "rest"
                  THEN <<config.accessKey, config.secretKey>> ELSE <<>>,
      catalog |-> IF config.catalogType = "rest"
                  THEN <<config.namespace, config.catalogEndpoint>> ELSE <<>> ]

\* c holds a setting that is neither an engine default nor what config asks for
HoldsForeignSetting(c, config) ==
    \E f \in SettingFields :
        c[f] # FreshConnection(0)[f] /\ c[f] # SessionFor(config)[f]

\* where the caller of _apply_s3_config goes on
AfterApply(q) ==
    IF q.kind = "query" THEN "q_table"
    ELSE IF q.cfg.catalogType # "rest" /\ Truthy(q.cfg.tablePath) THEN "t_hint"
    ELSE "t_probe"

\* the first k statements of `ops` succeed on the manager's connection; when
\* k is short of all of them, the next one raises
Execute(r, ops, k, next, cause) ==
    /\ connection' = ApplyOps(connection, SubSeq(ops, 1, k))
    /\ req' = [req EXCEPT ![r] =
            LET q == [req[r] EXCEPT !.log = @ \o SentOps(ops, k)]
            IN  IF k = Len(ops) THEN [q EXCEPT !.pc = next] ELSE Failed(q, cause)]

\* going on with the session the manager already holds
ReusedSession(old, r) == [old EXCEPT !.owner = r]

\* the session the manager holds after `self.connection.close();
\* self.connection = duckdb.connect(":memory:")`: a new in-memory database
FreshSession(old, r) == FreshConnection(r)

\* replacing the manager's session without closing it
ClosesNothing(old) == 0

\* the sessions `if self.connection: self.connection.close()` closes
Closes(old) == IF old.open THEN 1 ELSE 0

\* if self.connection: self.connection.close()
\* self.connection = duckdb.connect(":memory:")
ApplyConnect(r) ==
    /\ req[r].pc = "apply_connect"
    /\ \E ok \in BOOLEAN :
         /\ open_sessions' = open_sessions - Closes(connection) + (IF ok THEN 1 ELSE 0)
         /\ LET q == [req[r] EXCEPT
                         !.leftover = HoldsForeignSetting(connection, req[r].cfg),
                         !.log = @ \o <<Event("_apply_s3_config"), Event("close"),
                                        Event("connect")>>]
            IN  IF ok
                THEN /\ connection' = FreshSession(connection, r)
                     /\ req' = [req EXCEPT ![r] = [q EXCEPT !.pc = "apply_setup"]]
                ELSE /\ connection' = [connection EXCEPT !.open = FALSE]
                     /\ req' = [req EXCEPT ![r] = Failed(q, "Invalid S3 configuration")]
    /\ UNCHANGED <<loop, pending, call>>

\* INSTALL/LOAD httpfs and iceberg, version guessing, memory and thread caps
ApplySetup(r) ==
    /\ req[r].pc = "apply_setup"
    /\ \E k \in Outcomes(connection, SetupStatements) :
         Execute(r, SetupStatements, k, "apply_storage", "Invalid S3 configuration")
    /\ UNCHANGED <<loop, pending, open_sessions, call>>

\* endpoint, addressing style, TLS and region by storage type
ApplyStorage(r) ==
    /\ req[r].pc = "apply_storage"
    /\ LET ops == StorageStatements(req[r].cfg)
       IN  \E k \in Outcomes(connection, ops) :
             Execute(r, ops, k, "apply_creds", "Invalid S3 configuration")
    /\ UNCHANGED <<loop, pending, open_sessions, call>>

\* access key, secret key and, when present, session token
ApplyCredentials(r) ==
    /\ req[r].pc = "apply_creds"
    /\ LET ops == CredentialStatements(req[r].cfg)
       IN  \E k \in Outcomes(connection, ops) :
             Execute(r, ops, k, "apply_catalog", "Invalid S3 configuration")
    /\ UNCHANGED <<loop, pending, open_sessions, call>>

\* an endpoint test that only looks for None
CatalogEndpointIsNone(config) == config.catalogEndpoint = Null

\* `not config.catalogEndpoint`
CatalogEndpointMissing(config) == ~Truthy(config.catalogEndpoint)

\* _attach_iceberg_catalog(config), the last statement of _apply_s3_config
AttachCatalog(r) ==
    /\ req[r].pc = "apply_catalog"
    /\ LET q == req[r]
       IN  IF q.cfg.catalogType = "rest"
           THEN IF CatalogEndpointMissing(q.cfg)
                THEN /\ req' = [req EXCEPT ![r] =
                            Failed(q, "catalogEndpoint required for REST catalog")]
                     /\ UNCHANGED connection
                ELSE \E k \in Outcomes(connection, CatalogStatements(q.cfg)) :
                        Execute(r, CatalogStatements(q.cfg), k, AfterApply(q),
                                "Invalid S3 configuration")
           ELSE /\ req' = [req EXCEPT ![r].pc = AfterApply(q)]
                /\ UNCHANGED connection
    /\ UNCHANGED <<loop, pending, open_sessions, call>>

(***************************************************************************)
(* DuckDBManager._validate_iceberg_table                                   *)
(***************************************************************************)
ManifestContents == { <<"D","A","T","A">>, <<"D","E","L","E","T","E">> }

RECURSIVE Lists(_, _)
Lists(S, n) ==
    IF n = 0 THEN {<<>>}
    ELSE LET shorter == Lists(S, n - 1)
         IN  shorter \cup {l \o <<x>> : l \in shorter, x \in S}

\* what SELECT * FROM iceberg_metadata(table_path) can answer: an error, or
\* the manifest entries of the table with their manifest_content
MetadataAnswers ==
    {NoMetadata} \cup
    [readable : {TRUE}, manifest_content : Lists(ManifestContents, MaxManifests)]

\* any('DELETE' in str(v).upper() for v in metadata['manifest_content'].unique())
has_deletes(metadata) ==
    \E i \in 1..Len(metadata.manifest_content) :
        Contains(Upper(metadata.manifest_content[i]), <<"D","E","L","E","T","E">>)

\* a validator that reports delete manifests as a warning and lets the call go on
_validate_iceberg_table_lenient(metadata) ==
    IF ~metadata.readable
    THEN [raised |-> FALSE, valid |-> TRUE, warnings |-> <<"Validation incomplete">>]
    ELSE IF has_deletes(metadata)
    THEN [raised |-> FALSE, valid |-> TRUE, warnings |-> <<"Table contains row-level deletes">>]
    ELSE [raised |-> FALSE, valid |-> TRUE, warnings |-> <<>>]

\* the outcome of _validate_iceberg_table for an answer of the engine:
\* HTTPException(400) raised, or the dict returned
_validate_iceberg_table(metadata) ==
    IF ~metadata.readable
    THEN [raised |-> FALSE, valid |-> TRUE, warnings |-> <<"Validation incomplete">>]
    ELSE IF has_deletes(metadata)
    THEN [raised |-> TRUE, valid |-> FALSE, warnings |-> <<>>]
    ELSE [raised |-> FALSE, valid |-> TRUE, warnings |-> <<>>]

(***************************************************************************)
(* DuckDBManager.execute_query after the session is built.                 *)
(***************************************************************************)
\* going from the session build straight to the query
ValidatesNever(config) == FALSE

\* `if config.tablePath:` in execute_query
ValidatesTable(config) == Truthy(config.tablePath)

\* if config.tablePath: self._validate_iceberg_table(config.tablePath)
ValidateTable(r) ==
    /\ req[r].pc = "q_table"
    /\ LET q == req[r]
       IN  IF ~ValidatesTable(q.cfg)
           THEN req' = [req EXCEPT ![r].pc = "q_profile"]
           ELSE \E metadata \in IF connection.open THEN MetadataAnswers ELSE {NoMetadata} :
                  LET v  == _validate_iceberg_table(metadata)
                      q1 == [q EXCEPT !.metadata = metadata,
                                      !.validation = [valid |-> v.valid, warnings |-> v.warnings],
                                      !.log = @ \o <<[name |-> "iceberg_metadata",
                                                      interp |-> <<"tablePath">>,
                                                      bound |-> <<>>]>>]
                  IN  req' = [req EXCEPT ![r] =
                          IF v.raised
                          THEN Failed(q1, "Table contains row-level deletes")
                          ELSE [q1 EXCEPT !.pc = "q_profile"]]
    /\ UNCHANGED <<connection, loop, pending, open_sessions, call>>

ProfilingStatements ==
    << Op("PRAGMA enable_profiling", <<>>, <<>>, "profiling", TRUE),
       Op("PRAGMA profiling_output", <<>>, <<>>, "none", 0) >>

\* PRAGMA enable_profiling / profiling_output
EnableProfiling(r) ==
    /\ req[r].pc = "q_profile"
    /\ \E k \in Outcomes(connection, ProfilingStatements) :
         Execute(r, ProfilingStatements, k, "q_rewrite", "engine error")
    /\ UNCHANGED <<loop, pending, open_sessions, call>>

\* limited_sql = _convert_to_iceberg_query(_limit_query(sql, row_limit), config)
Rewrite(r) ==
    /\ req[r].pc = "q_rewrite"
    /\ req' = [req EXCEPT ![r].pc = "q_run",
                          ![r].limited_sql =
                              _convert_to_iceberg_query(
                                  _limit_query(req[r].sql, req[r].rowLimit), req[r].cfg)]
    /\ UNCHANGED <<connection, loop, pending, open_sessions, call>>

RECURSIVE toInt(_)
toInt(ds) ==
    IF ds = <<>> THEN 0
    ELSE 10 * toInt(SubSeq(ds, 1, Len(ds) - 1))
         + (CHOOSE d \in 0..9 : Digits[d + 1] = ds[Len(ds)])

\* The engine's reading of a statement that ends in ` LIMIT <n>`: n, and
\* MaxRows + 1 (no cap within the model) when it does not end that way.
TrailingLimit(sql) ==
    LET u == Upper(sql)
        at == {i \in 1..(Len(u) - 6) : SubSeq(u, i, i + 6) = <<" ","L","I","M","I","T"," ">>}
    IN  IF at = {} THEN MaxRows + 1
        ELSE LET i == CHOOSE i \in at : \A j \in at : i >= j
                 ds == SubSeq(sql, i + 7, Len(sql))
             IN  IF ds # <<>> /\ \A k \in 1..Len(ds) : \E d \in 1..10 : Digits[d] = ds[k]
                 THEN toInt(ds)
                 ELSE MaxRows + 1

\* the numbers of rows the engine can return for a statement: the table
\* holds up to MaxRows rows and a trailing LIMIT caps the result
RowCounts(sql) ==
    {n \in 0..MaxRows : n <= TrailingLimit(sql)}

\* truncated = len(rows) > row_limit
TruncatedStrict(rows, row_limit) == Len(rows) > row_limit

\* truncated = len(rows) >= row_limit
Truncated(rows, row_limit) == Len(rows) >= row_limit

\* QueryResponse(columns, rows, stats, truncated)
QueryResponse(rows, row_limit) ==
    [NoResponse EXCEPT !.status = 200, !.rows = rows, !.rowsReturned = Len(rows),
                       !.truncated = Truncated(rows, row_limit)]

\* result = self.connection.execute(limited_sql); rows = result.fetchall();
\* stats and truncation; return QueryResponse
RunQuery(r) ==
    /\ req[r].pc = "q_run"
    /\ LET q  == req[r]
           q1 == [q EXCEPT !.log = @ \o <<[name |-> "query", interp |-> <<"sql">>,
                                           bound |-> <<>>]>>]
       IN  \/ req' = [req EXCEPT ![r] = Failed(q1, "engine error")]
           \/ /\ connection.open
              /\ \E n \in RowCounts(q.limited_sql) :
                   req' = [req EXCEPT ![r] =
                       [q1 EXCEPT !.pc = "respond",
                                  !.response = QueryResponse([i \in 1..n |-> <<i>>],
                                                             q.rowLimit)]]
    /\ UNCHANGED <<connection, loop, pending, open_sessions, call>>

(***************************************************************************)
(* DuckDBManager.test_connection and its endpoint.                         *)
(***************************************************************************)
\* the tablePath clean-up at the head of test_connection (in place)
CleanTablePath(tablePath) ==
    IF ~Truthy(tablePath) THEN tablePath
    ELSE LET p1 == IF endswith(tablePath, <<"/">>) THEN rstrip(tablePath, {"/"})
                   ELSE tablePath
         IN  IF endswith(p1, <<"/","m","e","t","a","d","a","t","a">>)
             THEN SubSeq(p1, 1, Len(p1) - 9)
             ELSE p1

TestClean(r) ==
    /\ req[r].pc = "t_clean"
    /\ req' = [req EXCEPT ![r].pc = "apply_connect",
                          ![r].cfg.tablePath = CleanTablePath(@)]
    /\ UNCHANGED <<connection, loop, pending, open_sessions, call>>

\* the best-effort read of metadata/version-hint.text: its exception is
\* logged and the probe goes ahead
ReadVersionHint(r) ==
    /\ req[r].pc = "t_hint"
    /\ \E ok \in IF connection.open THEN BOOLEAN ELSE {FALSE} :
         req' = [req EXCEPT ![r].pc = "t_probe",
                            ![r].hint = IF ok THEN "found" ELSE "unreadable",
                            ![r].log = @ \o <<[name |-> "read_text",
                                               interp |-> <<"tablePath">>,
                                               bound |-> <<>>]>>]
    /\ UNCHANGED <<connection, loop, pending, open_sessions, call>>

\* test_query by configuration
ProbeStatement(config) ==
    IF config.catalogType = "rest"
    THEN [name |-> "SHOW TABLES FROM iceberg_catalog", interp |-> <<"namespace">>, bound |-> <<>>]
    ELSE IF Truthy(config.tablePath)
    THEN [name |-> "SELECT COUNT(*) FROM iceberg_scan", interp |-> <<"tablePath">>, bound |-> <<>>]
    ELSE [name |-> "SELECT COUNT(*) FROM iceberg_scan demo", interp |-> <<>>, bound |-> <<>>]

\* result = self.connection.execute(test_query).fetchone(); return True,
\* or the exception is caught and False returned
RunProbe(r) ==
    /\ req[r].pc = "t_probe"
    /\ \E ok \in IF connection.open THEN BOOLEAN ELSE {FALSE} :
         req' = [req EXCEPT ![r] =
             LET q == [req[r] EXCEPT !.log = @ \o <<ProbeStatement(req[r].cfg)>>]
             IN  IF ok THEN [q EXCEPT !.pc = "t_endpoint", !.success = TRUE]
                 ELSE Failed(q, "probe failed")]
    /\ UNCHANGED <<connection, loop, pending, open_sessions, call>>

\* the endpoint around db_manager.test_connection
TestEndpoint(r) ==
    /\ req[r].pc = "t_endpoint"
    /\ LET q == req[r]
       IN  req' = [req EXCEPT ![r] =
               IF q.success
               THEN [q EXCEPT !.pc = "respond",
                              !.response = [NoResponse EXCEPT
                                  !.status = 200, !.detail = "Connection successful",
                                  !.tableInfo = IF Truthy(q.cfg.tablePath)
                                                THEN q.cfg.tablePath ELSE Null]]
               ELSE Raise(q, 400, "Connection test failed")]
    /\ UNCHANGED <<connection, loop, pending, open_sessions, call>>

\* the handler returns: the response goes out and the event loop is free
Respond(r) ==
    /\ req[r].pc = "respond"
    /\ req' = [req EXCEPT ![r] = IdleReq]
    /\ loop' = IF loop = r THEN 0 ELSE loop
    /\ connection' = IF connection.owner = r THEN [connection EXCEPT !.owner = 0]
                     ELSE connection
    /\ UNCHANGED <<pending, open_sessions, call>>

\* lifespan shutdown: the manager's connection is closed
Shutdown ==
    /\ loop = 0
    /\ \A r \in Slots : req[r].pc = "idle"
    /\ connection.open
    /\ connection' = [connection EXCEPT !.open = FALSE]
    /\ pending = 0
    /\ open_sessions' = open_sessions - 1
    /\ loop' = -1
    /\ UNCHANGED <<pending, req, call>>

Next ==
    \/ Arrive
    \/ \E r \in Slots :
        \/ StartQuery(r) \/ StartTest(r) \/ QValidate(r)
        \/ ApplyConnect(r) \/ ApplySetup(r) \/ ApplyStorage(r)
        \/ ApplyCredentials(r) \/ AttachCatalog(r)
        \/ ValidateTable(r) \/ EnableProfiling(r) \/ Rewrite(r) \/ RunQuery(r)
        \/ TestClean(r) \/ ReadVersionHint(r) \/ RunProbe(r) \/ TestEndpoint(r)
        \/ Respond(r)
    \/ Shutdown

Spec == Init /\ [][Next]_vars

(***************************************************************************)
(* Direct calls of the pure functions: SQL texts put together from         *)
(* fragments, so that a keyword can be whole, split over two fragments, in *)
(* any letter case, and surrounded by blanks and terminators.              *)
(***************************************************************************)
Fragments ==
    { <<"a">>, <<" ">>, <<";">>, <<"\n">>,
      <<"l","i","m">>, <<"i","t">>, <<"L","i","M","I","t">>, LIMIT }

RECURSIVE Texts(_)
Texts(n) ==
    IF n = 0 THEN {<<>>}
    ELSE LET shorter == Texts(n - 1)
         IN  shorter \cup {t \o f : t \in shorter, f \in Fragments}

RowLimits == {-3, 0, 1, 25, 1000, MaxRowLimit}

InitPure ==
    /\ connection = StartupConnection
    /\ loop = 0
    /\ pending = 0
    /\ open_sessions = 1
    /\ req = [r \in Slots |-> IdleReq]
    /\ call \in [fn : {"_limit_query"}, sql : Texts(MaxFrags), limit : RowLimits,
                 returned : {FALSE}, ret : {<<>>}]

LimitQuery ==
    /\ call.fn = "_limit_query"
    /\ ~call.returned
    /\ call' = [call EXCEPT !.returned = TRUE,
                            !.ret = _limit_query(call.sql, call.limit)]
    /\ UNCHANGED <<connection, loop, pending, open_sessions, req>>

NextPure == LimitQuery

SpecPure == InitPure /\ [][NextPure]_vars

(***************************************************************************)
(* Direct calls of _convert_to_iceberg_query: a query text is a run of     *)
(* pieces, each either a read_parquet call over a glob                     *)
(* 's3://B/P/**/*.parquet' or text that is no such call.                   *)
(***************************************************************************)
MaxPieces == 3

S3Scheme == <<"s","3",":","/","/">>

GlobSuffix == <<"/","*","*","/","*",".","p","a","r","q","u","e","t">>

\* read_parquet(<quote>s3://<bucket>/<path>/**/*.parquet<quote>), whose path
\* ends in the segment <table>
GlobCall(fname, quote, bucket, path, table) ==
    [ glob   |-> TRUE,
      text   |-> fname \o <<"(", quote>> \o S3Scheme \o bucket \o <<"/">> \o path
                 \o GlobSuffix \o <<quote, ")">>,
      bucket |-> bucket,
      path   |-> path,
      table  |-> table ]

OtherText(text) ==
    [glob |-> FALSE, text |-> text, bucket |-> <<>>, path |-> <<>>, table |-> <<>>]

GlobCalls ==
    { GlobCall(<<"r","e","a","d","_","p","a","r","q","u","e","t">>, "'", <<"b">>, <<"t">>, <<"t">>),
      GlobCall(<<"R","E","A","D","_","P","A","R","Q","U","E","T">>, "\"", <<"b">>, <<"w","/","t">>, <<"t">>),
      GlobCall(<<"R","e","a","d","_","P","a","r","q","u","e","t">>, "'", <<"l","k">>, <<"w","/","u">>, <<"u">>) }

\* text with no call over a glob in it: plain SQL, a read of a local file,
\* and a read_parquet call that names a bucket alone
OtherTexts ==
    { OtherText(<<"s","e","l","e","c","t"," ","*"," ","f","r","o","m"," ">>),
      OtherText(<<" ","a"," ","j","o","i","n"," ">>),
      OtherText(<<"r","e","a","d","_","p","a","r","q","u","e","t","(","'","f",".","p","a","r","q","u","e","t","'",")">>),
      OtherText(<<"r","e","a","d","_","p","a","r","q","u","e","t","(","'","s","3",":","/","/","x","'",")">>) }

Pieces == GlobCalls \cup OtherTexts

RECURSIVE PieceLists(_)
PieceLists(n) ==
    IF n = 0 THEN {<<>>}
    ELSE LET shorter == PieceLists(n - 1)
         IN  shorter \cup {Append(ps, p) : ps \in shorter, p \in Pieces}

\* the query text the pieces spell
SqlOf(pieces) == Concat([i \in 1..Len(pieces) |-> pieces[i].text])

\* no catalog; a REST catalog with the default namespace and with another one
RewriteConfigs ==
    LET rest == Config("s3", 1, Null, "us-west-2", "rest", CatalogUrl, Null)
    IN  { Config("s3", 1, Null, "eu-west-1", "none", Null, Null),
          rest,
          [rest EXCEPT !.namespace = "ns"] }

InitRewrite ==
    /\ connection = StartupConnection
    /\ loop = 0
    /\ pending = 0
    /\ open_sessions = 1
    /\ req = [r \in Slots |-> IdleReq]
    /\ call \in [fn : {"_convert_to_iceberg_query"}, pieces : PieceLists(MaxPieces),
                 cfg : RewriteConfigs, returned : {FALSE}, ret : {<<>>}]

ConvertQuery ==
    /\ call.fn = "_convert_to_iceberg_query"
    /\ ~call.returned
    /\ call' = [call EXCEPT !.returned = TRUE,
                            !.ret = _convert_to_iceberg_query(SqlOf(call.pieces), call.cfg)]
    /\ UNCHANGED <<connection, loop, pending, open_sessions, req>>

NextRewrite == ConvertQuery

SpecRewrite == InitRewrite /\ [][NextRewrite]_vars

(***************************************************************************)
(* Claims.                                                                 *)
(***************************************************************************)
\* the names of the statements and connection calls request q has made
Names(q) == {q.log[i].name : i \in 1..Len(q.log)}

\* the calls and statements that make up the session build
BuildNames ==
    { "_apply_s3_config", "close", "connect",
      "INSTALL httpfs", "LOAD httpfs", "INSTALL iceberg", "LOAD iceberg",
      "SET unsafe_enable_version_guessing", "SET memory_limit", "SET threads",
      "SET s3_endpoint", "SET s3_url_style", "SET s3_use_ssl", "SET s3_region",
      "SET s3_access_key_id=?", "SET s3_secret_access_key=?", "SET s3_session_token",
      "CREATE SECRET iceberg_catalog_secret", "ATTACH iceberg_catalog" }

\* the positions at which a handler has its session built and reads through it
UsesSession(q) ==
    q.pc \in {"q_table", "q_profile", "q_rewrite", "q_run", "t_hint", "t_probe"}

\* the positions at which a handler is configuring the session it opened
BuildsSession(q) ==
    q.pc \in {"apply_setup", "apply_storage", "apply_creds", "apply_catalog"}

DenyList ==
    { <<"D","E","L","E","T","E">>, <<"D","R","O","P">>, <<"I","N","S","E","R","T">>,
      <<"U","P","D","A","T","E">>, <<"C","R","E","A","T","E">>, <<"A","L","T","E","R">> }

\* empty or blank, or a deny-listed word somewhere in it in any letter case
MustBeRejected(sql) ==
    \/ \A i \in 1..Len(sql) : sql[i] \in Whitespace
    \/ \E w \in DenyList : Contains(Upper(sql), w)

\* C1: a query request whose SQL is empty, blank or contains a deny-listed
\* word (any letter case, as a substring) never gets past the endpoint's
\* checks: it does nothing to the engine (no _apply_s3_config, no close, no
\* connect, no statement), the manager's connection is not one it opened,
\* and its response is a 400.
C1_RejectedBeforeSession ==
    \A r \in Slots :
        LET q == req[r]
        IN  (q.kind = "query" /\ MustBeRejected(q.sql)) =>
                /\ q.pc \in {"q_validate", "respond"}
                /\ q.log = <<>>
                /\ connection.owner # r
                /\ (q.pc = "respond" => q.response.status = 400)

\* C1 witness: a lower-case "drop ..." has been answered 400 with the engine untouched
C1_Witness ==
    \E r \in Slots :
        /\ req[r].kind = "query"
        /\ req[r].pc = "respond"
        /\ req[r].response.status = 400
        /\ Contains(req[r].sql, <<"d","r","o","p">>)
        /\ req[r].log = <<>>

\* C2: whenever a call reads through its session (table validation, the
\* user query, the version hint, the probe), that session is open, was
\* opened by this very call, and every setting of it (endpoint, addressing
\* style, TLS, region, keys, session token, catalog secret and attachment)
\* is what this call's config asks for or the engine default, whatever the
\* calls before it left behind.
C2_SessionFromOwnConfig ==
    \A r \in Slots :
        UsesSession(req[r]) =>
            /\ connection.open
            /\ connection.owner = r
            /\ \A f \in SettingFields : connection[f] = SessionFor(req[r].cfg)[f]

\* C2 witness: a call is about to run its query although the session it
\* found at entry held a setting of another call that its own config does
\* not produce
C2_Witness ==
    \E r \in Slots :
        /\ req[r].pc = "q_run"
        /\ req[r].leftover
        /\ connection.owner = r
        /\ connection.s3_session_token = Null

\* C3: with several requests in flight, every handler that is building or
\* using a session finds the manager's session open, opened by itself, and
\* holding nothing but engine defaults and settings of its own config; so
\* no two handlers are inside a session at once and none closes or
\* reconfigures the session of another.
C3_NoSessionShared ==
    \A r \in Slots :
        (BuildsSession(req[r]) \/ UsesSession(req[r])) =>
            /\ connection.open
            /\ connection.owner = r
            /\ ~HoldsForeignSetting(connection, req[r].cfg)
            /\ \A o \in Slots \ {r} : ~(BuildsSession(req[o]) \/ UsesSession(req[o]))

\* C3 witness: a handler is about to run its query on its own session,
\* which replaced a session configured differently, while another request
\* waits for the event loop
C3_Witness ==
    \E r \in Slots :
        /\ req[r].pc = "q_run"
        /\ req[r].leftover
        /\ connection.owner = r
        /\ pending > 0

\* request q got as far as opening its session
SessionBuilt(q) == "INSTALL httpfs" \in Names(q)

\* C4 (as amended): the session a call opens is not discarded when the call
\* ends: it is still open in the manager when the handler returns, and it
\* is the next call's session build (or shutdown) that closes it, so that
\* the manager's session is the only one open at any time.
C4_SessionKeptUntilNextBuild ==
    /\ open_sessions = (IF connection.open THEN 1 ELSE 0)
    /\ \A r \in Slots :
        (req[r].pc = "respond" /\ SessionBuilt(req[r])) =>
            connection.open /\ connection.owner = r

\* C4 as stated: once the call is over, no open session configured with
\* the call's credentials is held
C4_Original ==
    \A r \in Slots :
        req[r].pc = "respond" =>
            ~(/\ connection.open
              /\ connection.owner = r
              /\ connection.s3_access_key_id = req[r].cfg.accessKey)

\* C4 witness: a query has been answered and the session with its keys is
\* still open in the manager
C4_Witness ==
    \E r \in Slots :
        /\ req[r].pc = "respond"
        /\ req[r].response.status = 200
        /\ connection.open
        /\ connection.owner = r
        /\ connection.s3_secret_access_key = req[r].cfg.secretKey

\* C5: in every successful query response rowsReturned is the number of
\* rows, and truncated is set exactly when that number is at least the
\* requested row limit (equal: set; less: not set).
C5_TruncatedIffAtLimit ==
    \A r \in Slots :
        LET q == req[r]
        IN  (q.kind = "query" /\ q.pc = "respond" /\ q.response.status = 200) =>
                /\ q.response.rowsReturned = Len(q.response.rows)
                /\ (q.response.rowsReturned = q.rowLimit => q.response.truncated)
                /\ (q.response.rowsReturned < q.rowLimit => ~q.response.truncated)
                /\ (q.response.truncated <=> Len(q.response.rows) >= q.rowLimit)

\* C5 witness: a response with exactly rowLimit (> 0) rows, flagged truncated
C5_Witness ==
    \E r \in Slots :
        /\ req[r].pc = "respond"
        /\ req[r].response.status = 200
        /\ req[r].rowLimit > 0
        /\ Len(req[r].response.rows) = req[r].rowLimit
        /\ req[r].response.truncated

\* C6: a call whose config names a REST catalog without an endpoint (None
\* or "") never creates the catalog secret, never attaches the catalog,
\* never reaches the statements that follow the session build (validation,
\* user query, probe), and is answered 400.
C6_RestCatalogNeedsEndpoint ==
    \A r \in Slots :
        LET q == req[r]
        IN  (/\ q.kind \in {"query", "test"}
             /\ q.cfg.catalogType = "rest"
             /\ q.cfg.catalogEndpoint \in {Null, <<>>}) =>
                /\ Names(q) \subseteq
                       BuildNames \ {"CREATE SECRET iceberg_catalog_secret",
                                     "ATTACH iceberg_catalog"}
                /\ (connection.owner = r =>
                        connection.secret = <<>> /\ connection.catalog = <<>>)
                /\ ~UsesSession(q)
                /\ (q.pc = "respond" => q.response.status = 400)

\* C6 witness: a query with catalogType rest and catalogEndpoint "" has been
\* refused by _attach_iceberg_catalog and answered 400
C6_Witness ==
    \E r \in Slots :
        /\ req[r].kind = "query"
        /\ req[r].pc = "respond"
        /\ req[r].cfg.catalogType = "rest"
        /\ req[r].cfg.catalogEndpoint = <<>>
        /\ req[r].cause = "catalogEndpoint required for REST catalog"
        /\ req[r].response.status = 400

\* request q has asked the engine for the table's manifest metadata
Validated(q) == "iceberg_metadata" \in Names(q)

\* the metadata lists at least one delete manifest
HasDeleteManifest(metadata) ==
    /\ metadata.readable
    /\ \E i \in 1..Len(metadata.manifest_content) :
         metadata.manifest_content[i] = <<"D","E","L","E","T","E">>

\* C7: _validate_iceberg_table raises a client error (and returns no
\* warning) when the metadata lists a delete manifest, returns valid with a
\* non-empty warnings list when the metadata cannot be read, and returns
\* valid with no warning when the metadata is readable and lists none.
C7_ValidatorOutcomes ==
    \A r \in Slots :
        LET q == req[r]
        IN  Validated(q) =>
                IF ~q.metadata.readable
                THEN /\ q.validation.valid
                     /\ q.validation.warnings # <<>>
                     /\ q.cause # "Table contains row-level deletes"
                ELSE IF HasDeleteManifest(q.metadata)
                THEN /\ q.pc = "respond"
                     /\ q.response.status = 400
                     /\ q.cause = "Table contains row-level deletes"
                     /\ ~q.validation.valid
                     /\ q.validation.warnings = <<>>
                ELSE /\ q.validation.valid
                     /\ q.validation.warnings = <<>>
                     /\ q.cause # "Table contains row-level deletes"

\* C7 witness: the metadata could not be read and the call went on with a warning
C7_Witness ==
    \E r \in Slots :
        /\ Validated(req[r])
        /\ ~req[r].metadata.readable
        /\ req[r].validation.valid
        /\ Len(req[r].validation.warnings) = 1
        /\ req[r].pc = "q_profile"

\* C8: in execute_query with a table path, the metadata statement comes
\* after the complete session build and before profiling and the user
\* query; and when the metadata lists a delete manifest the call is
\* answered 400 with no rows, the user query never having been sent.
C8_ValidationBeforeQuery ==
    \A r \in Slots :
        LET q == req[r]
        IN  (q.kind = "query" /\ q.cfg.tablePath \notin {Null, <<>>}) =>
                /\ \A j \in 1..Len(q.log) :
                     q.log[j].name \notin BuildNames =>
                        \E i \in 1..j :
                            /\ q.log[i].name = "iceberg_metadata"
                            /\ \A k \in 1..(i - 1) : q.log[k].name \in BuildNames
                            /\ \E k \in 1..(i - 1) :
                                 q.log[k].name = "SET s3_secret_access_key=?"
                            /\ \A k \in (i + 1)..Len(q.log) :
                                 q.log[k].name \notin BuildNames \cup {"iceberg_metadata"}
                /\ HasDeleteManifest(q.metadata) =>
                        /\ q.pc = "respond"
                        /\ q.response.status = 400
                        /\ q.response.rows = <<>>
                        /\ "query" \notin Names(q)

\* C8 witness: a query on a table with a delete manifest has been answered
\* 400 right after validation
C8_Witness ==
    \E r \in Slots :
        /\ req[r].kind = "query"
        /\ req[r].pc = "respond"
        /\ HasDeleteManifest(req[r].metadata)
        /\ req[r].response.status = 400
        /\ req[r].log[Len(req[r].log)].name = "iceberg_metadata"

\* C9: test_connection always hands a boolean back to its endpoint (the
\* endpoint never answers 500): True exactly when no exception other than
\* that of the version-hint read was raised, the last statement sent being
\* the probe; False otherwise.
C9_TestConnectionNeverRaises ==
    \A r \in Slots :
        LET q == req[r]
        IN  q.kind = "test" =>
                /\ q.response.status \in {0, 200, 400}
                /\ q.success \in BOOLEAN
                /\ (q.pc \in {"t_endpoint", "respond"} =>
                        /\ q.success <=> q.cause = ""
                        /\ q.success => q.log[Len(q.log)] = ProbeStatement(q.cfg))
                /\ (q.pc = "respond" => (q.response.status = 200 <=> q.success))

\* C9 witness: the version hint could not be read, the probe went through,
\* and test_connection returned True
C9_Witness ==
    \E r \in Slots :
        /\ req[r].kind = "test"
        /\ req[r].pc = "respond"
        /\ req[r].hint = "unreadable"
        /\ req[r].success
        /\ req[r].response.status = 200

\* the text _limit_query works on: trimmed, one trailing ';' dropped
Normalized(sql) ==
    LET t == strip(sql)
    IN  IF t # <<>> /\ t[Len(t)] = ";" THEN SubSeq(t, 1, Len(t) - 1) ELSE t

LimitClause(limit) == <<" ","L","I","M","I","T"," ">> \o str(limit)

\* C10 (as amended): when the SQL text contains LIMIT in any letter case,
\* _limit_query returns the normalized text (trimmed, one trailing ';'
\* dropped) with nothing appended; otherwise it returns the normalized text
\* followed by exactly one ' LIMIT <rowLimit>'.
C10_LimitInjection ==
    call.returned =>
        IF Contains(Upper(call.sql), LIMIT)
        THEN call.ret = Normalized(call.sql)
        ELSE /\ call.ret = Normalized(call.sql) \o LimitClause(call.limit)
             /\ Count(Upper(call.ret), LIMIT) = 1

\* C10 as stated: a text that already contains LIMIT comes back unchanged
C10_Original ==
    call.returned =>
        IF Contains(Upper(call.sql), LIMIT)
        THEN call.ret = call.sql
        ELSE call.ret = Normalized(call.sql) \o LimitClause(call.limit)

\* C10 witness: a text with a mixed-case limit clause and a trailing ';'
\* has been through _limit_query and came back without the ';'
C10_Witness ==
    /\ call.returned
    /\ Contains(Upper(call.sql), LIMIT)
    /\ ~Contains(call.sql, LIMIT)
    /\ endswith(call.sql, <<";">>)
    /\ call.ret # call.sql

\* what the claim says a piece becomes: a call over a glob becomes the
\* direct scan of 's3://B/P' without a catalog and the catalog table
\* iceberg_catalog.N.<final segment of P> with a REST catalog; other text
\* stays as it is
Rewritten(piece, config) ==
    IF ~piece.glob THEN piece.text
    ELSE IF config.catalogType = "rest"
         THEN <<"i","c","e","b","e","r","g","_","c","a","t","a","l","o","g",".">> \o NamespaceText(config.namespace) \o <<".">> \o piece.table
         ELSE <<"i","c","e","b","e","r","g","_","s","c","a","n","(","'">> \o S3Scheme \o piece.bucket \o <<"/">> \o piece.path \o <<"'", ")">>

\* C11: _convert_to_iceberg_query replaces every read_parquet call over
\* 's3://B/P/**/*.parquet' (function name in any letter case) by
\* iceberg_scan('s3://B/P') without a catalog and by
\* iceberg_catalog.N.<final segment of P> with a REST catalog of namespace
\* N, rewrites all such calls of one query, leaves all other text as it
\* is, and returns a text without such a call unchanged.
C11_EveryGlobCallRewritten ==
    (call.fn = "_convert_to_iceberg_query" /\ call.returned)
        => call.ret = Concat([i \in 1..Len(call.pieces) |-> Rewritten(call.pieces[i], call.cfg)])

\* the request fields whose values are written into the text of statement e
Interpolated(e) == {e.interp[j] : j \in 1..Len(e.interp)}

\* C12: in every session build, for every storage kind and catalog kind,
\* the caller's access key and secret key are never interpolated into the
\* text of a statement sent to the engine (they reach it as bound
\* parameters only), and the session token is set only if present.
C12_KeysOnlyBound ==
    \A r \in Slots :
        \A i \in 1..Len(req[r].log) :
            LET e == req[r].log[i]
            IN  /\ "accessKey" \notin Interpolated(e)
                /\ "secretKey" \notin Interpolated(e)
                /\ (e.name = "SET s3_session_token") => Truthy(req[r].cfg.sessionToken)

\* query request q has been handed to the handler and has got as far as
\* the session build or the row-limit injection
ReachedBuildOrInjection(q) ==
    /\ q.kind = "query"
    /\ \/ "_apply_s3_config" \in Names(q)
       \/ q.pc = "q_run"

\* C13: every row limit the query endpoint accepts and passes on to
\* execute_query and _limit_query is in (0, 10000]: a request with
\* rowLimit <= 0 or rowLimit > 10000 never reaches the session build or the
\* row-limit injection.
C13_RowLimitInRange ==
    \A r \in Slots :
        ReachedBuildOrInjection(req[r]) =>
            (0 < req[r].rowLimit /\ req[r].rowLimit <= MaxRowLimit)

\* C14: the row cap is enforced on every successful execution: for any
\* accepted SQL text and row limit, also when the text already contains
\* LIMIT, the result of a successful query holds no more rows than the
\* requested row limit.
C14_RowCapEnforced ==
    \A r \in Slots :
        (req[r].kind = "query" /\ req[r].pc = "respond" /\ req[r].response.status = 200)
            => Len(req[r].response.rows) <= req[r].rowLimit

=============================================================================
